---- MODULE Spec2Model ----
(***************************************************************************)
(* Model of shurs-numbers-z3.py: the ShurProblem encoding handed to the    *)
(* constraint solver, assign_colors (synthesis query), check_solution      *)
(* (verification query) and the two modes of main (--iterate driver and    *)
(* single query).                                                          *)
(*                                                                         *)
(* The solver is an external collaborator.  It is modelled by what it      *)
(* guarantees: check() answers sat only if the asserted constraints have   *)
(* a model, unsat only if they have none, and may answer unknown; on sat   *)
(* model() is any one of the satisfying assignments.                       *)
(***************************************************************************)
EXTENDS Integers, Sequences, FiniteSets, TLC

\* Largest number of colours / of numbers the inputs and the driver reach.
MaxC == 2
MaxN == 5

VARIABLES
    mode,            \* "iterate" | "single" (the branches of main) | "verify" (a direct call of check_solution)
    pc,              \* position inside the mode
    total_colors,    \* C: the driver's cursor, or the argument
    total_numbers,   \* N: the driver's cursor, or the argument
    coloring,        \* the candidate list passed to check_solution
    solver,          \* the solver session of the last ShurProblem built
    assigned_colors, \* the list returned by the last assign_colors
    is_valid,        \* what the last check_solution returned
    output,          \* the printed lines
    queries          \* history of the assign_colors calls of the iterate loop

vars == <<mode, pc, total_colors, total_numbers, coloring, solver,
          assigned_colors, is_valid, output, queries>>

(***************************************************************************)
(* Values.  The cells of the array A : Int -> Int and the integers a, b, c *)
(* of the solver range over windows that reach past the constrained        *)
(* ranges, so that out-of-range colours and out-of-domain integers exist   *)
(* in the model.                                                           *)
(***************************************************************************)
\* The values a cell may hold: the colours 1..C and one value on each side.
Val(C) == 0 .. C + 1

IntWindow(n) == 0 .. n + 1

Max2(x, y) == IF x >= y THEN x ELSE y

(***************************************************************************)
(* Constraints, as data given to solver.add.  kind is one of               *)
(*   "ForAll_range"   ForAll(i, Implies(index_range, color_range))         *)
(*   "pin"            coloring[idx] == val                                 *)
(*   "mono"           And(abc_domains, shur_rule, A[a-1]==A[b-1],          *)
(*                        A[b-1]==A[c-1]) with a, b, c free                *)
(*   "ForAll_no_mono" ForAll([a,b,c], Implies(And(abc_domains, shur_rule), *)
(*                        Or(A[a-1]!=A[b-1], A[b-1]!=A[c-1])))             *)
(***************************************************************************)
Constraint(kind, C, N, idx, val) ==
    [kind |-> kind, C |-> C, N |-> N, idx |-> idx, val |-> val]

index_range(i, N) == i >= 0 /\ i < N

\* color_range with the upper bound off by one: colour C + 1 passes.
color_range_loose(A, i, C) == A[i] >= 1 /\ A[i] <= C + 1

color_range(A, i, C) == A[i] >= 1 /\ A[i] <= C

abc_domains(a, b, c, N) ==
    /\ (a >= 1) /\ (a <= N)
    /\ (b >= 1) /\ (b <= N)
    /\ (c >= 1) /\ (c <= N)

shur_rule(a, b, c) == a + b = c

\* ShurProblem.__init__: a fresh session holding the well-formedness formula.
ShurProblem(C, N) ==
    [total_colors |-> C, total_numbers |-> N,
     assertions |-> << Constraint("ForAll_range", C, N, 0, 0) >>,
     result |-> "none"]

Add(problem, constraint) ==
    [problem EXCEPT !.assertions = Append(@, constraint)]

(***************************************************************************)
(* The solver: the assignments that satisfy a session's assertions.        *)
(***************************************************************************)
\* same_color without its second equality: only a and b are compared.
same_color_first_pair(A, a, b, c) == A[a - 1] = A[b - 1]

\* check_solution lines 43-44: the three cells of the triple are equal.
same_color(A, a, b, c) == A[a - 1] = A[b - 1] /\ A[b - 1] = A[c - 1]

\* not_same_color with And for Or: both pairs must differ.
not_same_color_both(A, a, b, c) == A[a - 1] # A[b - 1] /\ A[b - 1] # A[c - 1]

\* assign_colors lines 69-72: not all three cells of the triple are equal.
not_same_color(A, a, b, c) == A[a - 1] # A[b - 1] \/ A[b - 1] # A[c - 1]

Holds(k, A, a, b, c) ==
    CASE k.kind = "ForAll_range" ->
           \A i \in DOMAIN A : index_range(i, k.N) => color_range(A, i, k.C)
      [] k.kind = "pin" -> A[k.idx] = k.val
      [] k.kind = "mono" ->
           abc_domains(a, b, c, k.N) /\ shur_rule(a, b, c) /\ same_color(A, a, b, c)
      [] k.kind = "ForAll_no_mono" ->
           \A x, y, z \in IntWindow(k.N) :
               (abc_domains(x, y, z, k.N) /\ shur_rule(x, y, z))
                   => not_same_color(A, x, y, z)

\* The cells of A the session speaks about: the range [0, N) and every pinned
\* cell (cells 0 .. Len(coloring) - 1).  No assertion and no read reaches any
\* other cell, so a model is given by these cells alone.
LastIndex(problem) ==
    LET pins == {k \in DOMAIN problem.assertions : problem.assertions[k].kind = "pin"}
    IN  Max2(problem.total_numbers, Cardinality(pins)) - 1

\* The values cell i may take under the assertions that constrain single cells.
CellValues(problem, i) ==
    {v \in Val(problem.total_colors) :
        \A k \in DOMAIN problem.assertions :
            LET q == problem.assertions[k]
            IN  (q.kind = "ForAll_range" \/ (q.kind = "pin" /\ q.idx = i))
                    => Holds(q, [j \in {i} |-> v], 0, 0, 0)}

RECURSIVE CellLists(_, _)
CellLists(problem, n) ==
    IF n = 0 THEN {<< >>}
    ELSE {Append(s, v) : s \in CellLists(problem, n - 1),
                         v \in CellValues(problem, n - 1)}

Arrays(problem) ==
    LET last == LastIndex(problem)
    IN  {[i \in 0 .. last |-> s[i + 1]] : s \in CellLists(problem, last + 1)}

\* The integers a, b, c are free only in a session that asserts "mono".
Triples(problem) ==
    IF \E k \in DOMAIN problem.assertions : problem.assertions[k].kind = "mono"
    THEN IntWindow(problem.total_numbers) \X IntWindow(problem.total_numbers)
             \X IntWindow(problem.total_numbers)
    ELSE {<<0, 0, 0>>}

Models(problem) ==
    UNION {{[A |-> A, a |-> t[1], b |-> t[2], c |-> t[3]] :
               t \in {u \in Triples(problem) :
                         \A k \in DOMAIN problem.assertions :
                             Holds(problem.assertions[k], A, u[1], u[2], u[3])}} :
           A \in Arrays(problem)}

\* solver.check(): the true answer, or unknown.
Check(models) == {IF models # {} THEN "sat" ELSE "unsat", "unknown"}

(***************************************************************************)
(* assign_colors(total_colors, total_numbers): the possible outcomes, each *)
(* the session after check() and the returned list.                        *)
(***************************************************************************)
\* line 81: [model.evaluate(coloring[i]).as_long() for i in range(N)]
Extract(A, N) == [k \in 1 .. N |-> A[k - 1]]

assign_colors(C, N) ==
    LET problem == Add(ShurProblem(C, N), Constraint("ForAll_no_mono", C, N, 0, 0))
        models  == Models(problem)
    IN  {[problem |-> [problem EXCEPT !.result = r], ret |-> << >>] :
             r \in Check(models) \ {"sat"}}
        \cup
        {[problem |-> [problem EXCEPT !.result = "sat"], ret |-> Extract(m.A, N)] :
             m \in IF "sat" \in Check(models) THEN models ELSE {}}

(***************************************************************************)
(* check_solution(total_colors, total_numbers, coloring): the possible     *)
(* outcomes, each the session, the returned bool and the lines printed.    *)
(***************************************************************************)
Line(kind, args, colors) == [kind |-> kind, args |-> args, colors |-> colors]

RECURSIVE Pin(_, _, _)
\* lines 36-37: for i, color in enumerate(coloring): add(coloring[i] == color)
Pin(problem, list, n) ==
    IF n = 0 THEN problem
    ELSE Add(Pin(problem, list, n - 1),
             Constraint("pin", problem.total_colors, problem.total_numbers,
                        n - 1, list[n]))

check_solution(C, N, list) ==
    LET pinned  == Pin(ShurProblem(C, N), list, Len(list))
        problem == Add(pinned, Constraint("mono", C, N, 0, 0))
        models  == Models(problem)
    IN  {[problem |-> [problem EXCEPT !.result = r], ret |-> "True",
          lines |-> << >>] : r \in Check(models) \ {"sat"}}
        \cup
        {[problem |-> [problem EXCEPT !.result = "sat"], ret |-> "False",
          lines |-> << Line("Counterexample", <<m.a, m.b, m.c>>, << >>) >>] :
             m \in IF "sat" \in Check(models) THEN models ELSE {}}

(***************************************************************************)
(* main, --iterate branch (lines 95-108): one loop iteration.              *)
(***************************************************************************)
\* lines 104-106: the progress line, then the S line when the list is empty.
ReportLines(C, N, assigned) ==
    << Line("took", <<C, N>>, << >>) >>
        \o (IF assigned = << >> THEN << Line("S", <<C, N>>, << >>) >> ELSE << >>)

\* lines 105-107: if not assigned_colors: total_colors += 1
NextColors(C, assigned) == IF assigned = << >> THEN C + 1 ELSE C

\* NextNumbers with N started over when the colour count grows.
NextNumbers_reset(N, assigned) == IF assigned = << >> THEN 1 ELSE N + 1

\* line 108: total_numbers += 1
NextNumbers(N, assigned) == N + 1

Iterate ==
    /\ mode = "iterate"
    /\ total_colors <= MaxC
    /\ total_numbers <= MaxN
    /\ \E o \in assign_colors(total_colors, total_numbers) :
          /\ solver' = o.problem
          /\ assigned_colors' = o.ret
          /\ queries' = Append(queries, [C |-> total_colors, N |-> total_numbers,
                                         answer |-> o.problem.result,
                                         found |-> o.ret # << >>])
          /\ output' = output \o ReportLines(total_colors, total_numbers, o.ret)
          /\ total_colors' = NextColors(total_colors, o.ret)
          /\ total_numbers' = NextNumbers(total_numbers, o.ret)
    /\ UNCHANGED <<mode, pc, coloring, is_valid>>

(***************************************************************************)
(* main, single-query branch (lines 110-113).                              *)
(***************************************************************************)
SingleQuery ==
    /\ mode = "single"
    /\ pc = "start"
    /\ \E o \in assign_colors(total_colors, total_numbers) :
          /\ solver' = o.problem
          /\ assigned_colors' = o.ret
          /\ output' = output \o << Line("Numbers", <<total_numbers>>, << >>),
                                    Line("Colors", <<total_colors>>, << >>),
                                    Line("Assigned Colors", << >>, o.ret) >>
    /\ pc' = "assigned"
    /\ UNCHANGED <<mode, total_colors, total_numbers, coloring, is_valid, queries>>

(***************************************************************************)
(* A call check_solution(total_colors, total_numbers, list).               *)
(***************************************************************************)
CallCheckSolution(list) ==
    /\ \E o \in check_solution(total_colors, total_numbers, list) :
          /\ solver' = o.problem
          /\ is_valid' = o.ret
          /\ output' = output \o o.lines
    /\ coloring' = list
    /\ pc' = "checked"
    /\ UNCHANGED <<mode, total_colors, total_numbers, assigned_colors, queries>>

\* check_solution on the coloring assign_colors just returned (the call
\* sketched at line 114).
RoundTrip ==
    /\ mode = "single"
    /\ pc = "assigned"
    /\ assigned_colors # << >>
    /\ CallCheckSolution(assigned_colors)

\* check_solution on a caller-supplied candidate.
VerifyCandidate ==
    /\ mode = "verify"
    /\ pc = "start"
    /\ CallCheckSolution(coloring)

(***************************************************************************)
(* Initial states and specifications.                                      *)
(***************************************************************************)
NoSession == [total_colors |-> 0, total_numbers |-> 0, assertions |-> << >>,
              result |-> "none"]

\* Caller-supplied candidates: every length up to N + 1, values inside and
\* outside the colour range.
Candidates(C, N) == UNION {[1 .. L -> Val(C)] : L \in 0 .. N + 1}

InitCommon ==
    /\ solver = NoSession
    /\ assigned_colors = << >>
    /\ is_valid = "unset"
    /\ output = << >>
    /\ queries = << >>

\* lines 96-97
InitIterate ==
    /\ mode = "iterate"
    /\ pc = "loop"
    /\ total_colors = 1
    /\ total_numbers = 1
    /\ coloring = << >>
    /\ InitCommon

\* the arguments -C and -N
InitSingle ==
    /\ mode = "single"
    /\ pc = "start"
    /\ total_colors \in 0 .. MaxC
    /\ total_numbers \in 0 .. MaxN
    /\ coloring = << >>
    /\ InitCommon

InitVerify ==
    /\ mode = "verify"
    /\ pc = "start"
    /\ total_colors \in 0 .. MaxC
    /\ total_numbers \in 0 .. MaxN
    /\ coloring \in Candidates(total_colors, total_numbers)
    /\ InitCommon

Init == InitIterate \/ InitSingle

Next == Iterate \/ SingleQuery \/ RoundTrip

Spec == Init /\ [][Next]_vars

NextVerify == VerifyCandidate

SpecVerify == InitVerify /\ [][NextVerify]_vars

(***************************************************************************)
(* Properties.  The combinatorial notions are stated on their own terms    *)
(* (numbers 1..N, a colouring f : 1..N -> colours), not through the        *)
(* encoding above.                                                         *)
(***************************************************************************)
\* f colours some a, b and a + b, all within 1..N, alike.
HasMonoTriple(f, N) ==
    \E a, b \in 1 .. N : a + b <= N /\ f[a] = f[b] /\ f[b] = f[a + b]

\* Some colouring of 1..N with colours 1..C has no monochromatic triple.
ValidColoringExists(C, N) == \E f \in [1 .. N -> 1 .. C] : ~HasMonoTriple(f, N)

\* The last solver session is the one of an assign_colors call.
AfterAssignColors ==
    \/ mode = "single" /\ pc = "assigned"
    \/ mode = "iterate" /\ queries # << >>

\* C1: for C >= 1 and N >= 1 and a solver answering sat or unsat,
\* assign_colors(C, N) returns a coloring (a non-empty list) exactly when some
\* colouring of 1..N with colours 1..C has no monochromatic triple a + b = c,
\* and the empty list exactly when every such colouring has one.
C1_AssignColorsDecides ==
    (/\ AfterAssignColors
     /\ solver.total_colors >= 1
     /\ solver.total_numbers >= 1
     /\ solver.result \in {"sat", "unsat"})
        => ((assigned_colors # << >>)
                <=> ValidColoringExists(solver.total_colors, solver.total_numbers))

\* C1's case: assign_colors(2, 5) answered unsat and returned the empty list.
C1_Witness ==
    /\ mode = "single" /\ pc = "assigned"
    /\ total_colors = 2 /\ total_numbers = 5
    /\ solver.result = "unsat"
    /\ assigned_colors = << >>

\* C2: for C >= 1 and N >= 1, a coloring returned by assign_colors(C, N) has
\* one entry for each index in [0, N), each a value in [1, C].
C2_ColoringWellFormed ==
    (/\ AfterAssignColors
     /\ solver.total_colors >= 1
     /\ solver.total_numbers >= 1
     /\ assigned_colors # << >>)
        => /\ Len(assigned_colors) = solver.total_numbers
           /\ \A i \in 1 .. Len(assigned_colors) :
                  assigned_colors[i] \in 1 .. solver.total_colors

\* C2's case: assign_colors(2, 4) returned the coloring [1, 2, 2, 1].
C2_Witness ==
    /\ mode = "single" /\ pc = "assigned"
    /\ total_colors = 2 /\ total_numbers = 4
    /\ assigned_colors = <<1, 2, 2, 1>>

CounterexampleLines == {i \in DOMAIN output : output[i].kind = "Counterexample"}

\* C3: round trip: check_solution(C, N, coloring) on a coloring returned by
\* assign_colors(C, N) returns True and prints no counterexample.
C3_RoundTrip ==
    (/\ mode = "single" /\ pc = "checked"
     /\ assigned_colors # << >>
     /\ coloring = assigned_colors)
        => (is_valid = "True" /\ CounterexampleLines = {})

\* C3's case: check_solution(2, 4, [2, 1, 1, 2]) ran on assign_colors' result
\* and the solver answered unsat.
C3_Witness ==
    /\ mode = "single" /\ pc = "checked"
    /\ total_colors = 2 /\ total_numbers = 4
    /\ coloring = <<2, 1, 1, 2>> /\ assigned_colors = <<2, 1, 1, 2>>
    /\ solver.result = "unsat"
    /\ is_valid = "True"

(***************************************************************************)
(* Properties of the iterate loop, over the history of its queries.        *)
(***************************************************************************)
\* The cursor that follows query q.
After(q) == [C |-> IF q.found THEN q.C ELSE q.C + 1, N |-> q.N + 1]

LinesOfKind(kind) == SelectSeq(output, LAMBDA l : l.kind = kind)

\* The (C, N) of the queries that returned the empty list, in order.
RECURSIVE FailedUpTo(_)
FailedUpTo(k) ==
    IF k = 0 THEN << >>
    ELSE FailedUpTo(k - 1)
            \o (IF queries[k].found THEN << >>
                ELSE << <<queries[k].C, queries[k].N>> >>)

\* C10: from (C, N) = (1, 1), each iteration issues one query for the current
\* cursor; after a coloring the next query is for (C, N + 1); after the empty
\* list the driver prints S(C) = N for the current N and the next query is for
\* (C + 1, N + 1): N is never reset and grows by one per iteration.
C10_DriverCursor ==
    mode = "iterate" =>
        /\ Len(LinesOfKind("took")) = Len(queries)
        /\ \A k \in DOMAIN queries :
              /\ LinesOfKind("took")[k].args = <<queries[k].C, queries[k].N>>
              /\ IF k = 1 THEN queries[k].C = 1 /\ queries[k].N = 1
                 ELSE /\ queries[k].C = After(queries[k - 1]).C
                      /\ queries[k].N = After(queries[k - 1]).N
        /\ IF queries = << >> THEN total_colors = 1 /\ total_numbers = 1
           ELSE /\ total_colors = After(queries[Len(queries)]).C
                /\ total_numbers = After(queries[Len(queries)]).N
        /\ [k \in 1 .. Len(LinesOfKind("S")) |-> LinesOfKind("S")[k].args]
               = FailedUpTo(Len(queries))

\* C10's case: five iterations, of which the second (1, 2) and the fifth
\* (2, 5) returned the empty list; the cursor stands at (3, 6).
C10_Witness ==
    /\ mode = "iterate"
    /\ Len(queries) = 5
    /\ \A k \in DOMAIN queries : queries[k].answer # "unknown"
    /\ ~queries[2].found /\ ~queries[5].found
    /\ total_colors = 3 /\ total_numbers = 6

\* The Schur numbers the claim C6 quotes.
KnownSchur == (1 :> 1) @@ (2 :> 4) @@ (3 :> 13) @@ (4 :> 44)

\* C6: with the solver deciding every query, each printed line S(C) = N of
\* the iterate driver carries the known Schur number of C: S(1) = 1,
\* S(2) = 4, S(3) = 13, S(4) = 44.
C6_PrintsSchurNumbers ==
    (/\ mode = "iterate"
     /\ \A k \in DOMAIN queries : queries[k].answer # "unknown")
        => \A i \in DOMAIN output :
               (output[i].kind = "S" /\ output[i].args[1] \in DOMAIN KnownSchur)
                   => output[i].args[2] = KnownSchur[output[i].args[1]]

\* C7: when check() answers unknown the iterate driver prints no S(C) = N
\* line for that query, keeps its cursor there and issues no further query;
\* and a single query's printed result differs from the one for "no valid
\* coloring" (an empty list).
C7_UnknownSurfaced ==
    /\ mode = "iterate" =>
          \A k \in DOMAIN queries :
              queries[k].answer = "unknown" =>
                  /\ k = Len(queries)
                  /\ total_colors = queries[k].C
                  /\ total_numbers = queries[k].N
                  /\ \A i \in DOMAIN output :
                         ~(output[i].kind = "S"
                           /\ output[i].args = <<queries[k].C, queries[k].N>>)
    /\ (/\ mode = "single" /\ pc = "assigned"
        /\ total_colors >= 1 /\ total_numbers >= 1
        /\ solver.result = "unknown") =>
          output[Len(output)] # Line("Assigned Colors", << >>, << >>)

\* C8: a query with C <= 0 or N <= 0 is rejected before the solver is queried
\* and its outcome differs from the empty list that stands for "no valid
\* coloring exists".
C8_MalformedInstanceRejected ==
    (/\ mode = "single" /\ pc = "assigned"
     /\ (total_colors <= 0 \/ total_numbers <= 0))
        => (solver.result = "none" /\ assigned_colors # << >>)

(***************************************************************************)
(* Properties of check_solution on caller-supplied candidates, under       *)
(* SpecVerify.  The Python list cell coloring[k - 1] is coloring[k] here.  *)
(***************************************************************************)
\* The candidate breaks the precondition: N entries, each in [1, C].
Malformed(list, C, N) ==
    Len(list) # N \/ \E k \in DOMAIN list : list[k] \notin 1 .. C

PinCount == Cardinality({k \in DOMAIN solver.assertions :
                             solver.assertions[k].kind = "pin"})

\* The triple t is a monochromatic Schur triple of the candidate.
TripleOfCandidate(t) ==
    /\ t[1] + t[2] = t[3]
    /\ \A k \in 1 .. 3 : 1 <= t[k] /\ t[k] <= total_numbers
    /\ \A k \in 1 .. 3 : t[k] \in DOMAIN coloring
    /\ coloring[t[1]] = coloring[t[2]]
    /\ coloring[t[2]] = coloring[t[3]]

\* C4: every counterexample (a, b, c) check_solution reports has a + b = c,
\* 1 <= a, b, c <= N and coloring[a-1] = coloring[b-1] = coloring[c-1] in the
\* caller-supplied coloring.
C4_CounterexampleIsMonoTriple ==
    pc = "checked" =>
        \A i \in CounterexampleLines : TripleOfCandidate(output[i].args)

\* C4 restricted to candidates with at least N entries (holds; shows that C4
\* fails on short candidates only).
CounterexampleWithinFullCandidate ==
    (pc = "checked" /\ Len(coloring) >= total_numbers) =>
        \A i \in CounterexampleLines : TripleOfCandidate(output[i].args)

\* C5: for a candidate of exactly N entries each in [1, C], check_solution
\* returns True if and only if the candidate has no monochromatic triple
\* a + b = c within [1, N], and an invalid one comes with a counterexample
\* (so (2, 4, [1,2,2,1]) is valid and (2, 5, [1,2,2,1,x]) is not).
C5_CheckSolutionDecides ==
    (pc = "checked" /\ ~Malformed(coloring, total_colors, total_numbers)) =>
        /\ (is_valid = "True") <=> ~HasMonoTriple(coloring, total_numbers)
        /\ (is_valid # "True") => CounterexampleLines # {}

\* C5 restricted to the runs in which check() answered sat or unsat (holds;
\* shows that C5 fails on the answer unknown only).
CheckSolutionDecidesWhenAnswered ==
    (/\ pc = "checked"
     /\ ~Malformed(coloring, total_colors, total_numbers)
     /\ solver.result \in {"sat", "unsat"}) =>
        /\ (is_valid = "True") <=> ~HasMonoTriple(coloring, total_numbers)
        /\ (is_valid # "True") => CounterexampleLines # {}

\* The two scenarios C5 names, with check() answering sat or unsat.
CheckSolutionScenarios ==
    (pc = "checked" /\ solver.result \in {"sat", "unsat"} /\ total_colors = 2) =>
        /\ (total_numbers = 4 /\ coloring = <<1, 2, 2, 1>>) => is_valid = "True"
        /\ (total_numbers = 5 /\ Len(coloring) = 5
            /\ SubSeq(coloring, 1, 4) = <<1, 2, 2, 1>> /\ coloring[5] \in 1 .. 2)
               => (is_valid = "False" /\ CounterexampleLines # {})

\* C9: check_solution on a candidate whose length differs from N or that
\* holds a value outside [1, C] ends with a distinct outcome, neither valid
\* nor invalid, before any cell is pinned.
C9_MalformedCandidateRejected ==
    (/\ pc = "checked"
     /\ total_colors >= 1 /\ total_numbers >= 1
     /\ Malformed(coloring, total_colors, total_numbers)) =>
        (is_valid \notin {"True", "False"} /\ PinCount = 0)

====
